---- MODULE Spec2Model ----
(***************************************************************************)
(* Recording and storage lifecycle engine of SkyCamOS (backend/app).       *)
(*                                                                         *)
(* The parts of the engine are modelled each with its own specification    *)
(* over the shared variables:                                              *)
(*   SpecStorage  StorageManager: cleanup(), cleanup_camera(),             *)
(*                ensure_space() over the scanned recording files          *)
(*   SpecPool     StoragePoolService: the pools and their statistics       *)
(*   SpecAssign   StoragePoolService: pools and camera assignments         *)
(*   SpecRec      RecordingService, FFmpegRecorder, AutoRecordingManager   *)
(*                and the API routes that start and stop recordings        *)
(*   SpecApp      the application process from startup to shutdown         *)
(*   SpecFiles    cleanup() beside capture processes and the lock routes   *)
(*   SpecQuota    cleanup() with pools that have a size limit              *)
(*   SpecSeg      one FFmpegRecorder step by step, on a clock of seconds   *)
(*   SpecLoop     the cleanup loop task between startup and shutdown       *)
(*   SpecAssignRace  assign_camera_to_pool calls that overlap              *)
(*   SpecStopRace    stop_recording suspended while a start is served      *)
(* SpecStorageLive and SpecRecLive are SpecStorage and SpecRec with        *)
(* fairness for the steps the event loop is bound to take.                 *)
(***************************************************************************)
EXTENDS Integers, Sequences, FiniteSets, TLC

VARIABLES
    disk,       \* recording files under recordings_path, in scan (rglob) order
    cl,         \* the cleanup() pass in progress: position and local variables
    ret,        \* result returned by the last StorageManager call, if it has returned
    pools,      \* rows of table storage_pools
    assignments,\* rows of table camera_storage_assignments
    nextPoolId, \* autoincrement of storage_pools.id
    nextAssignId, \* autoincrement of camera_storage_assignments.id
    defaultBefore, \* history: ids of the default pools before the last pool call
    pret,       \* history: the last create_pool or update_pool_stats call and its outcome
    cameras,    \* rows of table cameras: is_enabled and status of each camera
    recorders,  \* the FFmpegRecorder objects that are registered or still live
    cameras_recording, \* AutoRecordingManager._cameras_recording
    running,    \* AutoRecordingManager._running
    startLog,   \* history: per camera, the start_recording call the last step made
    stopLog,    \* history: the recorders the last step stopped, and through what
    app,        \* the application process: lifespan phase and the loops started
    writing,    \* paths of the segment files a capture process is writing
    db_locked,  \* paths of the recordings whose row has Recording.is_locked set
    seg,        \* one FFmpegRecorder seen step by step: its fields, its segment
                \* loop, its capture process, a stop() call and the time in seconds
    assigning   \* the assign_camera_to_pool calls suspended before their commit

storageVars == <<disk, cl, ret>>
poolVars == <<pools, assignments, nextPoolId, nextAssignId, defaultBefore, pret>>
recVars == <<cameras, recorders, cameras_recording, running, startLog, stopLog>>
sysVars == <<app, writing, db_locked, seg, assigning>>

(***************************************************************************)
(* Bounds of the model.  Sizes are in units of one "GB", times in days.    *)
(***************************************************************************)
MaxFiles == 3          \* files under the recordings root
MaxTime == 3           \* creation times 1..MaxTime; MaxTime is "now"
MaxSize == 2           \* file sizes 1..MaxSize
MaxCamera == 2         \* cleanup_camera is called for cameras 1..MaxCamera
MaxStorageBytes == 3   \* StorageManager.max_storage_bytes
RetentionDays == 2     \* StorageManager.retention_days
MaxFree == 1           \* free bytes the OS reports to ensure_space
MaxRequired == 2       \* required_bytes passed to ensure_space
MaxPoolId == 2         \* pools created in one run
MaxPath == 2           \* pool paths 1..MaxPath
MaxPriority == 2       \* pool priorities 1..MaxPriority
MaxAssignId == 2       \* assignment rows inserted in one run
MaxMinFreeGb == 1      \* min_free_gb of a pool, 1..MaxMinFreeGb (the schema has ge=1)
MaxPoolFree == 2       \* free bytes of a pool's disk, 0..MaxPoolFree, in units of GiB bytes
NumCameras == 1        \* cameras 1..NumCameras in table cameras
MaxPoolSizeGb == 1     \* max_size_gb of a pool, 0..MaxPoolSizeGb (0 = no limit)
SegmentDuration == 3   \* FFmpegRecorder.segment_duration, in seconds
MaxSpawns == 3         \* capture processes one recorder spawns in one run
MaxClock == 8          \* seconds of one recorder's life that are followed
MaxInFlight == 2       \* assign_camera_to_pool calls suspended at the same time
MaxRecorders == 2      \* recorder objects alive at once when stops are suspended

NoCamera == 0          \* camera_id = None: file name does not parse

Range(s) == {s[i] : i \in 1..Len(s)}

RECURSIVE SumSizes(_)
SumSizes(s) == IF s = <<>> THEN 0 ELSE Head(s).size_bytes + SumSizes(Tail(s))

\* RecordingFile.from_path(): camera_id is parsed from the file name.  Paths
\* 1, 4, .. are named camera_1_*, paths 2, 5, .. camera_2_*, and paths
\* 3, 6, .. have a name that does not parse (camera_id = None).
CameraOfPath(p) == IF p % 3 = 0 THEN NoCamera ELSE p % 3

\* RecordingFile as the eviction code receives it: path, size_bytes,
\* created_at, camera_id and the is_locked flag it tests.
FileAttr == [size_bytes : 1..MaxSize, created_at : 1..MaxTime, is_locked : BOOLEAN]

\* RecordingFile.from_path() passes no is_locked: every scanned file has the
\* dataclass default, is_locked = False
ScannedAttr == {a \in FileAttr : ~a.is_locked}

MkFile(p, a) ==
    [path |-> p, size_bytes |-> a.size_bytes, created_at |-> a.created_at,
     camera_id |-> CameraOfPath(p), is_locked |-> a.is_locked]

\* rglob("*") lists the files in directory order, here ascending path
RECURSIVE ScanOrder(_, _)
ScanOrder(S, a) ==
    IF S = {} THEN <<>>
    ELSE LET p == CHOOSE q \in S : \A r \in S : q <= r
         IN  <<MkFile(p, a[p])>> \o ScanOrder(S \ {p}, a)

\* _get_recording_files(): the files found by the scan, in scan order
get_recording_files == disk

UnlinkNothing(d, paths) == d

\* path.unlink(): the file is gone from the recordings root
Unlink(d, paths) == SelectSeq(d, LAMBDA f : f.path \notin paths)

\* list.sort(key=created_at) is stable: equal keys keep their scan order
RECURSIVE InsertByCreated(_, _)
InsertByCreated(f, s) ==
    IF s = <<>> THEN <<f>>
    ELSE IF s[Len(s)].created_at <= f.created_at THEN Append(s, f)
    ELSE Append(InsertByCreated(f, SubSeq(s, 1, Len(s) - 1)), s[Len(s)])

SortUnsorted(s) == s

RECURSIVE SortByCreated(_)
SortByCreated(s) ==
    IF s = <<>> THEN <<>>
    ELSE InsertByCreated(s[Len(s)], SortByCreated(SubSeq(s, 1, Len(s) - 1)))

\* cutoff_date = utcnow() - timedelta(days=retention_days)
CutoffDate == MaxTime - RetentionDays + 1

RetentionIgnoringAge(f) == ~f.is_locked

\* cleanup(), phase 1: file.created_at < cutoff_date and not file.is_locked
RetentionEligible(f) == f.created_at < CutoffDate /\ ~f.is_locked

FirstAny(files) == IF files = <<>> THEN 0 ELSE 1

\* cleanup(), phase 2: index of the first file of the list that is not
\* locked, 0 when every remaining file is locked (the for-else branch)
RECURSIVE FirstUnlockedFrom(_, _)
FirstUnlockedFrom(files, i) ==
    IF i > Len(files) THEN 0
    ELSE IF ~files[i].is_locked THEN i
    ELSE FirstUnlockedFrom(files, i + 1)

FirstUnlocked(files) == FirstUnlockedFrom(files, 1)

CapacityLoopCondInclusive(total_size, files) ==
    total_size >= MaxStorageBytes /\ files # <<>>

\* cleanup(), phase 2: while total_size > self.max_storage_bytes and files
CapacityLoopCond(total_size, files) ==
    total_size > MaxStorageBytes /\ files # <<>>

NoPath == 0             \* no file: the paths of files are 1..MaxFiles

SpinWhenAllLocked == "capacity"

\* cleanup(), phase 2: the else branch of the for loop breaks out of the
\* while loop
BreakWhenAllLocked == "done"

\* cl.denied is the path whose unlink raises on every call from now on
IdleCleanup ==
    [pc |-> "idle", files |-> <<>>, scanned |-> <<>>,
     deleted_count |-> 0, freed_bytes |-> 0, total_size |-> 0,
     errors |-> FALSE, denied |-> NoPath]

NoResult == [op |-> "none"]

\* cleanup(): scan, sort, then the whole retention loop.  fails is the set
\* of files whose unlink raises during this loop (caught and logged);
\* cl.errors records that the except branch of this pass has run.
CleanupRetention ==
    /\ cl.pc = "idle"
    /\ LET files == SortByCreated(get_recording_files)
           eligible == {f.path : f \in {g \in Range(files) : RetentionEligible(g)}}
       IN  \E fails \in SUBSET eligible :
             LET gone == eligible \ fails
                 kept == Unlink(files, gone)
                 removed == SelectSeq(files, LAMBDA f : f.path \in gone)
             IN  /\ disk' = Unlink(disk, gone)
                 /\ cl' = [pc |-> "capacity", files |-> kept, scanned |-> files,
                           deleted_count |-> Len(removed),
                           freed_bytes |-> SumSizes(removed),
                           total_size |-> SumSizes(kept),
                           errors |-> fails # {}, denied |-> NoPath]
    /\ ret' = NoResult
    /\ UNCHANGED <<poolVars, recVars>>
    /\ UNCHANGED sysVars

\* cleanup(): one iteration of "while total_size > max_storage_bytes and
\* files": unlink the first unlocked file and break out of the for loop,
\* whether unlink raised or not.  When it raised, files and total_size are
\* as before and the next iteration finds the same file.
CleanupCapacityStep ==
    /\ cl.pc = "capacity"
    /\ CapacityLoopCond(cl.total_size, cl.files)
    /\ LET i == FirstUnlocked(cl.files) IN
         IF i = 0
         THEN /\ cl' = [cl EXCEPT !.pc = BreakWhenAllLocked]
              /\ UNCHANGED disk
         \* path.unlink() removes the file, or raises this once, or raises
         \* now and on every later call (the file is read-only, in use, or
         \* its directory denies the removal)
         ELSE \E unlink \in {"removed", "raises", "raises_for_good"} :
                IF unlink = "removed" /\ cl.files[i].path # cl.denied
                THEN /\ disk' = Unlink(disk, {cl.files[i].path})
                     /\ cl' = [cl EXCEPT
                          !.files = Unlink(cl.files, {cl.files[i].path}),
                          !.deleted_count = @ + 1,
                          !.freed_bytes = @ + cl.files[i].size_bytes,
                          !.total_size = @ - cl.files[i].size_bytes]
                ELSE /\ cl' = [cl EXCEPT
                          !.errors = TRUE,
                          !.denied = IF unlink = "raises_for_good"
                                     THEN cl.files[i].path ELSE @]
                     /\ UNCHANGED disk
    /\ UNCHANGED <<ret, poolVars, recVars>>
    /\ UNCHANGED sysVars

\* cleanup(): the while condition is false
CleanupCapacityExit ==
    /\ cl.pc = "capacity"
    /\ ~CapacityLoopCond(cl.total_size, cl.files)
    /\ cl' = [cl EXCEPT !.pc = "done"]
    /\ UNCHANGED <<disk, ret, poolVars, recVars>>
    /\ UNCHANGED sysVars

\* cleanup(): build and return the result dict
CleanupReturn ==
    /\ cl.pc = "done"
    /\ ret' = [op |-> "cleanup",
               deleted_count |-> cl.deleted_count,
               freed_bytes |-> cl.freed_bytes,
               remaining_files |-> Len(cl.files),
               remaining_bytes |-> SumSizes(cl.files)]
    /\ cl' = IdleCleanup
    /\ UNCHANGED <<disk, poolVars, recVars>>
    /\ UNCHANGED sysVars

AttributedOrUnparsed(f, camera_id) == f.camera_id \in {camera_id, NoCamera}

\* cleanup_camera(): file.camera_id == camera_id
AttributedTo(f, camera_id) == f.camera_id = camera_id

\* cleanup_camera(camera_id)
CleanupCamera ==
    /\ cl.pc = "idle"
    /\ \E camera_id \in 1..MaxCamera :
         LET files == get_recording_files
             hit == {f.path : f \in {g \in Range(files) :
                        AttributedTo(g, camera_id) /\ ~g.is_locked}}
         IN  \E fails \in SUBSET hit :
               LET removed == SelectSeq(files, LAMBDA f : f.path \in hit \ fails)
               IN  /\ disk' = Unlink(disk, hit \ fails)
                   /\ ret' = [op |-> "cleanup_camera", camera_id |-> camera_id,
                              deleted_count |-> Len(removed),
                              freed_bytes |-> SumSizes(removed)]
    /\ UNCHANGED <<cl, poolVars, recVars>>
    /\ UNCHANGED sysVars

CoveredStrictly(freed, needed) == freed > needed

\* ensure_space(): freed >= needed, the test of the break and of the result
Covered(freed, needed) == freed >= needed

\* ensure_space(): the loop over the sorted files.  Returns the paths
\* unlinked, the bytes freed and the paths whose unlink raised, given the
\* files whose unlink would raise.
RECURSIVE EnsureLoop(_, _, _, _, _, _)
EnsureLoop(files, needed, fails, gone, freed, raised) ==
    IF files = <<>> THEN [gone |-> gone, freed |-> freed, raised |-> raised]
    ELSE LET f == Head(files) IN
         IF f.is_locked
         THEN EnsureLoop(Tail(files), needed, fails, gone, freed, raised)
         ELSE IF f.path \in fails
         THEN EnsureLoop(Tail(files), needed, fails, gone, freed,
                         raised \cup {f.path})
         ELSE IF Covered(freed + f.size_bytes, needed)
              THEN [gone |-> gone \cup {f.path}, freed |-> freed + f.size_bytes,
                    raised |-> raised]
              ELSE EnsureLoop(Tail(files), needed, fails,
                              gone \cup {f.path}, freed + f.size_bytes, raised)

\* ensure_space(required_bytes); free_bytes is what the OS reports.  ret
\* keeps the argument and the free bytes read beside the returned bool.
EnsureSpace ==
    /\ cl.pc = "idle"
    /\ \E required_bytes \in 0..MaxRequired, free_bytes \in 0..MaxFree :
         IF free_bytes >= required_bytes
         THEN /\ ret' = [op |-> "ensure_space", ok |-> TRUE, freed |-> 0,
                         needed |-> 0, required_bytes |-> required_bytes,
                         free_bytes |-> free_bytes, raised |-> {}]
              /\ UNCHANGED disk
         ELSE LET needed == required_bytes - free_bytes
                  files == SortByCreated(get_recording_files)
                  unlocked == {f.path : f \in {g \in Range(files) : ~g.is_locked}}
              IN  \E fails \in SUBSET unlocked :
                    LET r == EnsureLoop(files, needed, fails, {}, 0, {})
                    IN  /\ disk' = Unlink(disk, r.gone)
                        /\ ret' = [op |-> "ensure_space",
                                   ok |-> Covered(r.freed, needed),
                                   freed |-> r.freed, needed |-> needed,
                                   required_bytes |-> required_bytes,
                                   free_bytes |-> free_bytes,
                                   raised |-> r.raised]
    /\ UNCHANGED <<cl, poolVars, recVars>>
    /\ UNCHANGED sysVars

\* The recordings root is empty and no cleanup pass is in progress
StorageQuiet ==
    /\ disk = <<>>
    /\ cl = IdleCleanup
    /\ ret = NoResult

\* No pool and no assignment has been created
PoolsEmpty ==
    /\ pools = {}
    /\ assignments = {}
    /\ nextPoolId = 1
    /\ nextAssignId = 1
    /\ defaultBefore = {}
    /\ pret = [op |-> "none"]

CameraStatus == {"online", "offline", "recording", "error", "connecting"}

NoCalls == [c \in 1..NumCameras |-> "none"]

PollInterval == 1      \* _wait_for_segment(): asyncio.sleep(1)

GracePeriod == 1       \* stop(): asyncio.sleep(1) after the quit request

RetryDelay == 5        \* _recording_loop(): asyncio.sleep(5) after an exception

JoinTimeout == 5       \* stop(): asyncio.wait_for(self._task, timeout=5.0)

\* FFmpegRecorder.__init__(): not recording, no process, no metadata, no
\* task, stop event clear.  The other fields are history and timers of the
\* step-by-step view: see the Segmented Recorder section.
IdleRecorder ==
    [is_recording |-> FALSE, stop_event |-> FALSE, proc |-> "none", age |-> 0,
     quit_sent |-> FALSE, failed |-> FALSE, clean |-> TRUE, loop |-> "none",
     retry_left |-> 0, poll_due |-> FALSE, cur |-> "none", finalized |-> 0,
     spawns |-> 0, since_exit |-> 0, clock |-> 0, stop |-> "idle",
     grace_left |-> 0, join_left |-> 0, result |-> "unset", forced |-> "no",
     inflight |-> FALSE, files |-> <<>>]

\* The application is not started, no segment is being written, no
\* recording is locked and the recorder followed step by step is idle
SysQuiet ==
    /\ app = [phase |-> "down", storage_is_running |-> FALSE,
               pool_is_running |-> FALSE, cleanup_task |-> "none"]
    /\ writing = {}
    /\ db_locked = {}
    /\ seg = IdleRecorder
    /\ assigning = {}

\* Cameras as created by the cameras route (enabled, status connecting),
\* no recorder, supervisor not started
RecQuiet ==
    /\ cameras = [c \in 1..NumCameras |->
                    [is_enabled |-> TRUE, status |-> "connecting"]]
    /\ recorders = {}
    /\ cameras_recording = {}
    /\ running = FALSE
    /\ startLog = NoCalls
    /\ stopLog = {}

\* The recordings root holds up to MaxFiles files with distinct paths
InitStorage ==
    /\ \E S \in SUBSET (1..MaxFiles) :
         \E a \in [S -> FileAttr] : disk = ScanOrder(S, a)
    /\ cl = IdleCleanup
    /\ ret = NoResult
    /\ PoolsEmpty
    /\ RecQuiet
    /\ SysQuiet

NextStorage ==
    \/ CleanupRetention
    \/ CleanupCapacityStep
    \/ CleanupCapacityExit
    \/ CleanupReturn
    \/ CleanupCamera
    \/ EnsureSpace

vars == <<storageVars, poolVars, recVars, sysVars>>

SpecStorage == InitStorage /\ [][NextStorage]_vars

\* cleanup() is a coroutine without an await: once a pass has begun, the
\* event loop runs nothing else until it returns, so each step of the
\* pass that can be taken is taken.
SpecStorageLive ==
    /\ InitStorage
    /\ [][NextStorage]_vars
    /\ WF_vars(CleanupCapacityStep)
    /\ WF_vars(CleanupCapacityExit)
    /\ WF_vars(CleanupReturn)

(***************************************************************************)
(* Storage Pool Registry: StoragePoolService over the two tables.  Each    *)
(* operation runs in its own session and commits before the next begins.   *)
(***************************************************************************)

DefaultIds(ps) == {p.id : p \in {q \in ps : q.is_default}}

ClearNothing(ps) == ps

\* update(StoragePool).values(is_default=False): every row is cleared
ClearDefault(ps) == {[p EXCEPT !.is_default = FALSE] : p \in ps}

None == 0              \* the result None of a call that returns a pool

NeverDuplicate(ps, path) == FALSE

\* create_pool(): select(StoragePool).where(StoragePool.path == path)
DuplicatePath(ps, path) == \E p \in ps : p.path = path

DiskTotal == MaxPoolFree   \* size of the disk a pool path is on, in bytes

\* _get_disk_stats(): shutil.disk_usage(path) as a dict, for a disk with
\* the given free bytes
DiskUsage(free) == [total |-> DiskTotal, used |-> DiskTotal - free, free |-> free]

\* The column defaults of total_size_bytes, used_size_bytes and
\* free_size_bytes, which a row keeps when _get_disk_stats returns None
NoStats == [total |-> 0, used |-> 0, free |-> 0]

\* create_pool(): mkdir, duplicate-path check, clear the other defaults
\* when is_default, read the disk statistics (the three figures stay 0
\* when they can not be read), insert the row.  mkdir_ok = FALSE: the
\* directory can not be created; both failures return None and change
\* nothing.  The call takes its path from paths, its max_size_gb from
\* sizes and the result of its disk query from usages.
CreatePoolIn(paths, sizes, usages) ==
    /\ nextPoolId <= MaxPoolId
    /\ \E path \in paths, max_size_gb \in sizes, priority \in 1..MaxPriority,
          is_default \in BOOLEAN, mkdir_ok \in BOOLEAN,
          min_free_gb \in 1..MaxMinFreeGb,
          disk_stats \in usages :
         IF ~mkdir_ok \/ DuplicatePath(pools, path)
         THEN /\ pret' = [op |-> "create_pool", path |-> path,
                          is_default |-> is_default, result |-> None]
              /\ UNCHANGED <<pools, assignments, nextPoolId, nextAssignId,
                             defaultBefore>>
         ELSE /\ pools' = (IF is_default THEN ClearDefault(pools) ELSE pools)
                    \cup {[id |-> nextPoolId, path |-> path,
                            priority |-> priority, is_default |-> is_default,
                            is_enabled |-> TRUE, status |-> "active",
                            min_free_gb |-> min_free_gb,
                            max_size_gb |-> max_size_gb,
                            total_size_bytes |-> disk_stats.total,
                            used_size_bytes |-> disk_stats.used,
                            free_size_bytes |-> disk_stats.free]}
              /\ nextPoolId' = nextPoolId + 1
              /\ defaultBefore' = DefaultIds(pools)
              /\ pret' = [op |-> "create_pool", path |-> path,
                          is_default |-> is_default, result |-> nextPoolId]
              /\ UNCHANGED <<assignments, nextAssignId>>
    /\ UNCHANGED <<storageVars, recVars>>
    /\ UNCHANGED sysVars

\* POST /pools with a path that is not the recordings root and the
\* schema's default max_size_gb = 0 (no limit)
CreatePool ==
    CreatePoolIn(1..MaxPath, {0},
                 {NoStats} \cup {DiskUsage(f) : f \in 0..MaxPoolFree})

\* POST /pools with any path, the recordings root included, and any
\* max_size_gb, on a disk whose statistics can be read
CreateSizedPool ==
    CreatePoolIn(0..MaxPath, 0..MaxPoolSizeGb,
                 {DiskUsage(f) : f \in (MaxPoolFree - 1)..MaxPoolFree})

\* kwargs of update_pool (StoragePoolUpdate, exclude_unset): each of
\* priority, is_default, is_enabled is either unset or a value.  An unset
\* priority is written 0 (a given priority is at least 1).
KwBool == {"unset", "true", "false"}

ApplyKwBool(old, kw) == IF kw = "unset" THEN old ELSE kw = "true"

ApplyKwInt(old, kw) == IF kw = 0 THEN old ELSE kw

\* update_pool(): when kwargs.get("is_default") is true every row is
\* cleared first, then the given attributes are set on the pool.
UpdatePool ==
    /\ \E pool_id \in 1..MaxPoolId, priority \in 0..MaxPriority,
          is_default \in KwBool, is_enabled \in KwBool :
         IF ~(\E p \in pools : p.id = pool_id)
         THEN UNCHANGED <<pools, defaultBefore>>
         ELSE LET cleared == IF is_default = "true" THEN ClearDefault(pools)
                             ELSE pools
              IN  /\ pools' = {IF p.id = pool_id
                                THEN [p EXCEPT
                                    !.priority = ApplyKwInt(@, priority),
                                    !.is_default = ApplyKwBool(@, is_default),
                                    !.is_enabled = ApplyKwBool(@, is_enabled)]
                                ELSE p : p \in cleared}
                  /\ defaultBefore' = DefaultIds(pools)
    /\ pret' = [op |-> "none"]
    /\ UNCHANGED <<assignments, nextPoolId, nextAssignId, storageVars, recVars>>
    /\ UNCHANGED sysVars

\* delete_pool(): the row is deleted; files and (foreign keys not being
\* enforced by the engine) assignment rows stay
DeletePool ==
    /\ \E pool_id \in 1..MaxPoolId :
         /\ pools' = {p \in pools : p.id # pool_id}
         /\ defaultBefore' = IF \E p \in pools : p.id = pool_id
                              THEN DefaultIds(pools) ELSE defaultBefore
    /\ pret' = [op |-> "none"]
    /\ UNCHANGED <<assignments, nextPoolId, nextAssignId, storageVars, recVars>>
    /\ UNCHANGED sysVars

PrimaryOf(rows, camera_id) ==
    {a \in rows : a.camera_id = camera_id /\ a.is_primary}

KeepExisting(rows, camera_id, is_primary) == rows

\* assign_camera_to_pool(): the rows left after "if is_primary: delete the
\* existing primary assignment of the camera"
WithoutOldPrimary(rows, camera_id, is_primary) ==
    IF is_primary THEN rows \ PrimaryOf(rows, camera_id) ELSE rows

\* assign_camera_to_pool(); scalar_one_or_none() raises when the camera has
\* more than one primary row, and then nothing is committed
AssignCameraToPool ==
    /\ nextAssignId <= MaxAssignId
    /\ \E camera_id \in 1..MaxCamera, pool_id \in 1..MaxPoolId,
          is_primary \in BOOLEAN :
         IF is_primary /\ Cardinality(PrimaryOf(assignments, camera_id)) > 1
         THEN UNCHANGED <<assignments, nextAssignId>>
         ELSE /\ assignments' =
                    WithoutOldPrimary(assignments, camera_id, is_primary)
                    \cup {[id |-> nextAssignId, camera_id |-> camera_id,
                            storage_pool_id |-> pool_id,
                            is_primary |-> is_primary]}
              /\ nextAssignId' = nextAssignId + 1
    /\ pret' = [op |-> "none"]
    /\ UNCHANGED <<pools, nextPoolId, defaultBefore, storageVars, recVars>>
    /\ UNCHANGED sysVars

\* assign_camera_to_pool() up to its commit, in a request of its own:
\* the select of the camera's primary row (scalar_one_or_none() raises
\* when there are several, and the call ends), db.delete() of the row
\* found and db.add() of the new row.  Nothing is flushed (the sessions
\* have autoflush off), so the tables are as before; the call is
\* suspended at an await with the id of the row it will delete (None when
\* it found none).
AssignSelect ==
    /\ nextAssignId + Cardinality(assigning) <= MaxAssignId
    /\ \E req \in 1..MaxInFlight, camera_id \in 1..MaxCamera,
          pool_id \in 1..MaxPoolId, is_primary \in BOOLEAN :
         /\ \A call \in assigning : call.req # req
         /\ IF is_primary /\ Cardinality(PrimaryOf(assignments, camera_id)) > 1
            THEN UNCHANGED assigning
            ELSE assigning' = assigning \cup
                   {[req |-> req, camera_id |-> camera_id, pool_id |-> pool_id,
                     is_primary |-> is_primary,
                     existing |->
                       IF is_primary /\ PrimaryOf(assignments, camera_id) # {}
                       THEN (CHOOSE a \in PrimaryOf(assignments, camera_id) : TRUE).id
                       ELSE None]}
    /\ UNCHANGED <<storageVars, poolVars, recVars, app, writing, db_locked, seg>>

\* assign_camera_to_pool(): await db.commit() of a suspended call.  The
\* flush deletes the row the call found, if it is still there (when it is
\* not, the DELETE matches no row, which is a warning), and inserts the
\* new row.
AssignCommit ==
    /\ \E call \in assigning :
         /\ assignments' =
               {a \in assignments : a.id # call.existing}
               \cup {[id |-> nextAssignId, camera_id |-> call.camera_id,
                       storage_pool_id |-> call.pool_id,
                       is_primary |-> call.is_primary]}
         /\ nextAssignId' = nextAssignId + 1
         /\ assigning' = assigning \ {call}
    /\ pret' = [op |-> "none"]
    /\ UNCHANGED <<pools, nextPoolId, defaultBefore, storageVars, recVars>>
    /\ UNCHANGED <<app, writing, db_locked, seg>>

GiB == 2               \* bytes in a GB (1024 ** 3 in the code)

\* update_pool_stats(): pool.free_gb < pool.min_free_gb, where free_gb is
\* free_size_bytes / (1024 ** 3)
BelowMinFree(free_size_bytes, min_free_gb) == free_size_bytes < min_free_gb * GiB

StatusAlwaysActive(pool, free, path_exists) == "active"

\* update_pool_stats(): the status written after a successful disk query
StatusAfterStats(pool, free, path_exists) ==
    IF BelowMinFree(free, pool.min_free_gb) THEN "full"
    ELSE IF ~path_exists THEN "error"
    ELSE "active"

FreeOnlyWritten(pool, stats) == [pool EXCEPT !.free_size_bytes = stats.free]

\* update_pool_stats(): the three figures of one stats dict are assigned
WithStats(pool, stats) ==
    [pool EXCEPT !.total_size_bytes = stats.total,
                 !.used_size_bytes = stats.used,
                 !.free_size_bytes = stats.free]

\* update_pool_stats(pool_id).  stats_ok = FALSE: shutil.disk_usage raised
\* and _get_disk_stats returned None; then nothing is written.  free is
\* the free space the query reports and path_exists the result of
\* os.path.exists(pool.path) afterwards.  pret keeps the stats dict of
\* the query.
UpdatePoolStats ==
    /\ \E pool_id \in 1..MaxPoolId, stats_ok \in BOOLEAN,
          free \in 0..MaxPoolFree, path_exists \in BOOLEAN :
         /\ pools' = IF stats_ok
                      THEN {IF p.id = pool_id
                            THEN [WithStats(p, DiskUsage(free)) EXCEPT
                                !.status = StatusAfterStats(p, free, path_exists)]
                            ELSE p : p \in pools}
                      ELSE pools
         /\ pret' = [op |-> "update_pool_stats", pool_id |-> pool_id,
                     stats_ok |-> stats_ok,
                     free |-> IF stats_ok THEN free ELSE 0,
                     stats |-> IF stats_ok THEN DiskUsage(free) ELSE NoStats,
                     path_exists |-> stats_ok /\ path_exists]
         /\ defaultBefore' = IF \E p \in pools : p.id = pool_id
                              THEN DefaultIds(pools) ELSE defaultBefore
    /\ UNCHANGED <<assignments, nextPoolId, nextAssignId, storageVars, recVars>>
    /\ UNCHANGED sysVars

InitPool ==
    /\ StorageQuiet
    /\ PoolsEmpty
    /\ RecQuiet
    /\ SysQuiet

NextPool ==
    \/ CreatePool
    \/ UpdatePool
    \/ DeletePool
    \/ UpdatePoolStats

SpecPool == InitPool /\ [][NextPool]_vars

\* The registry as create_pool, delete_pool and assign_camera_to_pool
\* leave it
NextAssign ==
    \/ CreatePool
    \/ DeletePool
    \/ AssignCameraToPool

SpecAssign == InitPool /\ [][NextAssign]_vars

\* Requests to POST /cameras/assign served at the same time: each is a
\* coroutine with a session of its own, and they interleave at the awaits
NextAssignRace ==
    \/ AssignSelect
    \/ AssignCommit

SpecAssignRace == InitPool /\ [][NextAssignRace]_vars

(***************************************************************************)
(* Properties of the Storage Pool Registry (SpecPool)                      *)
(***************************************************************************)

\* C6: after any sequence of assign_camera_to_pool calls each camera has at
\* most one primary assignment, and a call that inserts a primary row for a
\* camera leaves that row as the camera's only primary assignment.
C6_AtMostOnePrimary ==
    /\ [](\A c \in 1..MaxCamera :
            Cardinality(PrimaryOf(assignments, c)) <= 1)
    /\ [][\A a \in assignments' \ assignments :
            a.is_primary => PrimaryOf(assignments', a.camera_id) = {a}]_vars

\* The second row inserted is a camera's primary assignment and the first
\* row, which was that camera's primary, is gone: the new one superseded it.
C6_Witness ==
    /\ nextAssignId = 3
    /\ \E a \in assignments : a.id = 2 /\ a.is_primary
    /\ ~(\E a \in assignments : a.id = 1)

\* C37: assign_camera_to_pool calls with is_primary = true for the same
\* camera that interleave at their database awaits still leave the camera
\* with one primary assignment: once no call is in flight, no camera has
\* more than one.
C37_InterleavedAssignOnePrimary ==
    assigning = {}
        => \A c \in 1..MaxCamera : Cardinality(PrimaryOf(assignments, c)) <= 1

\* C7: after any sequence of create_pool, update_pool and delete_pool calls
\* at most one pool has is_default set, and a pool that a call makes the
\* default is then the only default.
C7_AtMostOneDefault ==
    /\ [](Cardinality(DefaultIds(pools)) <= 1)
    /\ [][\A p \in pools' :
            (p.is_default /\ p.id \notin DefaultIds(pools))
                => DefaultIds(pools') = {p.id}]_vars

\* The last call made a pool the default while another pool, which still
\* exists, was the default before it.
C7_Witness ==
    \E p, q \in pools :
        /\ p.id # q.id
        /\ p.is_default /\ p.id \notin defaultBefore
        /\ q.id \in defaultBefore /\ ~q.is_default

(***************************************************************************)
(* Properties of the Storage Manager (SpecStorage)                         *)
(***************************************************************************)

\* C1: no eviction path deletes a locked file: a file whose is_locked flag
\* is set is still under the recordings root after every step of cleanup()
\* (retention and capacity phase), cleanup_camera() and ensure_space(),
\* whatever its age and however far the total exceeds the budget.
C1_LockedNeverDeleted ==
    [][\A i \in 1..Len(disk) :
          disk[i].is_locked => disk[i] \in Range(disk')]_vars

\* A cleanup pass has deleted something and ended while a locked file older
\* than the retention cutoff is still there and the total exceeds the budget.
C1_Witness ==
    /\ cl.pc = "done"
    /\ cl.deleted_count > 0
    /\ SumSizes(disk) > MaxStorageBytes
    /\ \E i \in 1..Len(disk) :
          disk[i].is_locked /\ disk[i].created_at < CutoffDate

\* C4: in the capacity phase a file is deleted only while the total size of
\* the listed files exceeds max_storage, one file per iteration, and only
\* when no unlocked file still listed is older than it.
C4_CapacityFifoOrder ==
    [][(cl.pc = "capacity" /\ disk' # disk) =>
          LET gone == Range(disk) \ Range(disk')
          IN  /\ Cardinality(gone) = 1
              /\ SumSizes(cl.files) > MaxStorageBytes
              /\ \A f \in gone : \A g \in Range(cl.files) :
                    ~g.is_locked => f.created_at <= g.created_at]_vars

\* The capacity phase has deleted two files with distinct creation times,
\* none of the scanned files being past retention, and the scan order was
\* not the creation order.
C4_Witness ==
    /\ cl.pc = "done"
    /\ \A f \in Range(cl.scanned) : ~RetentionEligible(f)
    /\ \E f, g \in Range(cl.scanned) \ Range(cl.files) :
          f.created_at < g.created_at /\ f.path > g.path
    /\ cl.files # <<>>

\* The unlocked files of a scan in list order, and the lengths k of the
\* prefixes of them whose removal brings the total within max_storage
UnlockedOf(files) == SelectSeq(files, LAMBDA f : ~f.is_locked)

SufficientPrefixes(files) ==
    {k \in 0..Len(UnlockedOf(files)) :
        SumSizes(files) - SumSizes(SubSeq(UnlockedOf(files), 1, k))
            <= MaxStorageBytes}

\* C5: when every scanned file is within retention and some oldest-first
\* prefix of the unlocked files suffices, a finished cleanup() has deleted
\* exactly the shortest such prefix, and deleted_count and freed_bytes are
\* the number and the summed size of those files.
C5_ShortestPrefixDeleted ==
    (/\ cl.pc = "done"
     /\ \A f \in Range(cl.scanned) : f.created_at >= CutoffDate
     /\ SufficientPrefixes(cl.scanned) # {})
    => LET U == UnlockedOf(cl.scanned)
           k == CHOOSE n \in SufficientPrefixes(cl.scanned) :
                    \A m \in SufficientPrefixes(cl.scanned) : n <= m
           prefix == {U[j].path : j \in 1..k}
       IN  /\ cl.files = Unlink(cl.scanned, prefix)
           /\ {f.path : f \in Range(disk)} =
                  {f.path : f \in Range(cl.scanned)} \ prefix
           /\ cl.deleted_count = k
           /\ cl.freed_bytes = SumSizes(SubSeq(U, 1, k))

\* Equal unlocked files, all within retention, of which exactly the two
\* oldest had to go: the rest fits the budget, one deletion less would not.
C5_Witness ==
    /\ cl.pc = "done"
    /\ \A f \in Range(cl.scanned) :
          f.created_at >= CutoffDate /\ ~f.is_locked /\ f.size_bytes = MaxSize
    /\ cl.deleted_count = 2
    /\ cl.files # <<>>
    /\ SumSizes(cl.files) <= MaxStorageBytes
    /\ SumSizes(cl.files) + MaxSize > MaxStorageBytes

C28_EnsureSpaceContract ==
    [][EnsureSpace =>
         LET gone == Range(disk) \ Range(disk')
             freed == SumSizes(disk) - SumSizes(disk')
             needed == ret'.required_bytes - ret'.free_bytes
         IN  IF needed <= 0
             THEN ret'.ok /\ disk' = disk
             ELSE /\ \A f \in gone : ~f.is_locked
                  /\ \A f \in gone : \A g \in Range(disk') :
                        (~g.is_locked /\ g.path \notin ret'.raised)
                            => f.created_at <= g.created_at
                  /\ gone # {} =>
                        \E f \in gone :
                           /\ \A g \in gone : g.created_at <= f.created_at
                           /\ freed - f.size_bytes < needed
                  /\ ret'.ok <=> freed >= needed]_vars

\* ensure_space has returned true after deleting the oldest unlocked file
\* and leaving a newer unlocked one and an older locked one.
C28_Witness ==
    /\ ret.op = "ensure_space"
    /\ ret.ok
    /\ ret.free_bytes < ret.required_bytes
    /\ ret.freed >= ret.needed
    /\ ret.raised = {}
    /\ Len(disk) = 2
    /\ \E i, k \in 1..Len(disk) :
          /\ disk[i].is_locked /\ ~disk[k].is_locked
          /\ disk[i].created_at < disk[k].created_at

\* C29: cleanup_camera(camera_id) removes only unlocked files whose name
\* parses to that camera id; the files of every other camera, the files
\* whose name gives no camera id and the locked files stay, in place.
C29_CleanupCameraFrame ==
    [][CleanupCamera =>
         /\ \A f \in Range(disk) \ Range(disk') :
               ~f.is_locked /\ f.camera_id = ret'.camera_id
         /\ disk' = SelectSeq(disk, LAMBDA f : f \in Range(disk'))]_vars

\* cleanup_camera has removed a file of its camera and left an unlocked
\* file of another camera and an unlocked file without a camera id.
C29_Witness ==
    /\ ret.op = "cleanup_camera"
    /\ ret.deleted_count = 1
    /\ \A f \in Range(disk) : f.camera_id # ret.camera_id
    /\ \E f \in Range(disk) : ~f.is_locked /\ f.camera_id = NoCamera
    /\ \E f \in Range(disk) :
          ~f.is_locked /\ f.camera_id \notin {NoCamera, ret.camera_id}

\* C31: a filesystem error while deleting one file does not stall a cleanup
\* pass: a pass that has reached the capacity phase completes, whatever
\* unlink does.
C31_PassCompletesDespiteErrors == (cl.pc = "capacity") ~> (cl.pc = "done")

\* C32: cleanup() terminates when deletions succeed.  A pass in its
\* capacity phase completes unless an unlink of the pass has raised; when
\* the total size is within max_storage or only locked files remain, the
\* next step ends the loop and deletes nothing; and an iteration that
\* stays in the loop without an error has removed a file from the list.
C32_CapacityLoopTerminates ==
    /\ (cl.pc = "capacity") ~> (cl.pc = "done" \/ cl.errors)
    /\ [][(/\ cl.pc = "capacity"
            /\ \/ cl.total_size <= MaxStorageBytes
               \/ \A f \in Range(cl.files) : f.is_locked)
              => (cl'.pc = "done" /\ disk' = disk)]_vars
    /\ [][(cl.pc = "capacity" /\ cl'.pc = "capacity" /\ ~cl'.errors)
              => Len(cl'.files) < Len(cl.files)]_vars

\* C32 witness: a pass without an error has deleted a file that was within
\* retention and has ended over budget with only locked files left
C32_Witness ==
    /\ cl.pc = "done"
    /\ ~cl.errors
    /\ cl.total_size > MaxStorageBytes
    /\ cl.files # <<>>
    /\ \A f \in Range(cl.files) : f.is_locked
    /\ \E f \in Range(cl.scanned) \ Range(cl.files) : f.created_at >= CutoffDate

\* C40: the result of every cleanup() accounts for each scanned file once:
\* deleted_count + remaining_files is the number of files scanned,
\* freed_bytes + remaining_bytes their total size, and deleted_count is
\* the number of scanned files that are gone from the recordings root (a
\* file whose unlink raised is still there and is counted as remaining).
C40_ResultAccountsForScan ==
    [][CleanupReturn =>
         /\ ret'.deleted_count + ret'.remaining_files = Len(cl.scanned)
         /\ ret'.freed_bytes + ret'.remaining_bytes = SumSizes(cl.scanned)
         /\ ret'.deleted_count
              = Cardinality(Range(cl.scanned) \ Range(disk))
         /\ ret'.remaining_files
              = Cardinality(Range(cl.scanned) \cap Range(disk))]_vars

\* C40 witness: a pass has returned after deleting a file, and a file
\* that it should have deleted for its age is still there (its unlink
\* raised)
C40_Witness ==
    /\ ret.op = "cleanup"
    /\ ret.deleted_count > 0
    /\ ret.remaining_files > 0
    /\ \E f \in Range(disk) : RetentionEligible(f)

(***************************************************************************)
(* Segmented Recorder, Recording Service, Auto-Recording Supervisor and    *)
(* the API routes.  A handler runs to completion in one step; the segment  *)
(* loop of a recorder is a task of its own and the capture process runs    *)
(* beside it.                                                              *)
(*                                                                         *)
(* A recorder is a record: camera_id, registered (it is the entry of       *)
(* RecordingService._recorders for its camera), is_recording, proc (its    *)
(* _process: "none", "running", "exited"), task (its segment loop:         *)
(* "start" before _start_new_segment, "wait" while a segment is awaited,   *)
(* "done"), spawn_failed (the FileNotFoundError branch was taken) and       *)
(* stopping (the caller suspended inside its stop(): "no", "api" for the   *)
(* stop route, "manual" for stop_camera_recording).                        *)
(* A recorder that is neither registered nor live is garbage.              *)
(***************************************************************************)

RecordingsDir == 0     \* settings.recordings_dir; pool paths 1..MaxPath are elsewhere

\* start_recording(): camera_dir = self._output_dir / f"camera_{camera.id}",
\* the output_dir of the recorder and the directory of its segment files
CameraDir(c) ==
    [base |-> RecordingsDir, camera_id |-> c, layout |-> "camera_<id>"]

\* FFmpegRecorder.__init__ followed by a successful start()
NewRecorder(c) ==
    [camera_id |-> c, registered |-> TRUE, is_recording |-> TRUE,
     proc |-> "none", task |-> "start", spawn_failed |-> FALSE,
     output_dir |-> CameraDir(c), stopping |-> "no"]

\* self._recorders[camera_id], as a set with at most one element
Registered(recs, c) == {r \in recs : r.camera_id = c /\ r.registered}

\* The segment loop or the capture process of the recorder runs, or a
\* stop_recording call holds it while suspended in its stop()
Live(r) == r.task # "done" \/ r.proc = "running" \/ r.stopping # "no"

NeverRecording(recs, c) == FALSE

\* start_recording(): camera.id in self._recorders and
\* self._recorders[camera.id].is_recording
AlreadyRecording(recs, c) == \E r \in Registered(recs, c) : r.is_recording

\* RecordingService.start_recording(camera): None when already recording,
\* else a new recorder is started and stored in _recorders[camera.id]; the
\* entry it replaces stays around for as long as it is live.
StartRecording(recs, c) ==
    IF AlreadyRecording(recs, c)
    THEN [ok |-> FALSE, recs |-> recs]
    ELSE [ok |-> TRUE,
          recs |-> (recs \ Registered(recs, c))
                   \cup {[r EXCEPT !.registered = FALSE] :
                            r \in {q \in Registered(recs, c) : Live(q)}}
                   \cup {NewRecorder(c)}]

KeepRecorder(recs, c) == recs

\* RecordingService.stop_recording(camera_id): FFmpegRecorder.stop() ends
\* the process and the segment loop, then the entry is deleted.
StopRecording(recs, c) == recs \ Registered(recs, c)

ShouldRecordIgnoringStatus(cam) == cam.is_enabled

\* _process_camera(): camera.status in ("online", "recording") and
\* camera.is_enabled
ShouldRecord(cam) == cam.status \in {"online", "recording"} /\ cam.is_enabled

\* (st is the state a handler works on: the recorders, the
\* currently-recording set, the camera rows and the calls made so far)
\* _start_auto_recording(camera, db)
StartAutoRecording(st, c, by) ==
    LET r == StartRecording(st.recs, c) IN
    IF r.ok
    THEN [recs |-> r.recs, set |-> st.set \cup {c},
          cams |-> [st.cams EXCEPT ![c].status = "recording"],
          log |-> [st.log EXCEPT ![c] = by \o "_ok"],
          stopped |-> st.stopped]
    ELSE [st EXCEPT !.log[c] = by \o "_refused"]

\* The entries of the stop history for the recorder stop_recording(c) stops
Stopped(recs, c, by) == {[by |-> by, rec |-> r] : r \in Registered(recs, c)}

StatusKept(cam) == cam.status

\* _stop_auto_recording(): if camera.status == "recording":
\* camera.status = "online" if camera.is_enabled else "offline"
StatusAfterStop(cam) ==
    IF cam.status = "recording"
    THEN (IF cam.is_enabled THEN "online" ELSE "offline")
    ELSE cam.status

\* _stop_auto_recording(camera, db)
StopAutoRecording(st, c, by) ==
    [st EXCEPT !.recs = StopRecording(st.recs, c),
               !.set = st.set \ {c},
               !.stopped = @ \cup Stopped(st.recs, c, by),
               !.cams[c].status = StatusAfterStop(st.cams[c])]

\* _process_camera(camera, db)
ProcessCamera(st, c) ==
    LET is_recording == c \in st.set
        should_record == ShouldRecord(st.cams[c])
    IN  IF should_record /\ ~is_recording THEN StartAutoRecording(st, c, "poll")
        ELSE IF ~should_record /\ is_recording
             THEN StopAutoRecording(st, c, "poll")
        ELSE st

\* _check_cameras(): select(Camera).where(Camera.is_enabled == True), then
\* _process_camera for each row, here from camera c on
RECURSIVE CheckCamerasFrom(_, _)
CheckCamerasFrom(st, c) ==
    IF c > NumCameras THEN st
    ELSE CheckCamerasFrom(IF st.cams[c].is_enabled THEN ProcessCamera(st, c)
                          ELSE st, c + 1)

View == [recs |-> recorders, set |-> cameras_recording, cams |-> cameras,
         log |-> NoCalls, stopped |-> {}]

Commit(st) ==
    /\ recorders' = st.recs
    /\ cameras_recording' = st.set
    /\ cameras' = st.cams
    /\ startLog' = st.log
    /\ stopLog' = st.stopped

\* AutoRecordingManager.start()
ManagerStart ==
    /\ ~running
    /\ running' = TRUE
    /\ startLog' = NoCalls
    /\ stopLog' = {}
    /\ UNCHANGED <<cameras, recorders, cameras_recording, storageVars, poolVars>>
    /\ UNCHANGED sysVars

\* RecordingService.stop_all(): stop_recording for every key of _recorders,
\* here from camera c on
RECURSIVE StopAllFrom(_, _)
StopAllFrom(recs, c) ==
    IF c > NumCameras THEN recs
    ELSE StopAllFrom(StopRecording(recs, c), c + 1)

\* AutoRecordingManager.stop() of a running supervisor: cancel the loop,
\* stop_all(), clear the set.  (When not running it returns at once.)
ManagerStop ==
    /\ running
    /\ running' = FALSE
    /\ recorders' = StopAllFrom(recorders, 1)
    /\ cameras_recording' = {}
    /\ startLog' = NoCalls
    /\ stopLog' = UNION {Stopped(recorders, c, "stop_all") : c \in 1..NumCameras}
    /\ UNCHANGED <<cameras, storageVars, poolVars>>
    /\ UNCHANGED sysVars

\* One poll of _monitoring_loop(): _check_cameras()
Poll ==
    /\ running
    /\ Commit(CheckCamerasFrom(View, 1))
    /\ UNCHANGED <<running, storageVars, poolVars>>
    /\ UNCHANGED sysVars

\* AutoRecordingManager.start_camera_recording(camera_id)
StartCameraRecording ==
    /\ \E c \in 1..NumCameras : Commit(StartAutoRecording(View, c, "manual"))
    /\ UNCHANGED <<running, storageVars, poolVars>>
    /\ UNCHANGED sysVars

\* AutoRecordingManager.stop_camera_recording(camera_id)
StopCameraRecording ==
    /\ \E c \in 1..NumCameras :
         IF c \notin cameras_recording THEN Commit(View)
         ELSE Commit(StopAutoRecording(View, c, "manual"))
    /\ UNCHANGED <<running, storageVars, poolVars>>
    /\ UNCHANGED sysVars

\* POST /{camera_id}/recording/start (routes/stream.py start_recording)
ApiStartRecording ==
    /\ \E c \in 1..NumCameras :
         LET r == StartRecording(recorders, c) IN
         IF r.ok
         THEN /\ recorders' = r.recs
              /\ cameras' = [cameras EXCEPT ![c].status = "recording"]
              /\ startLog' = [NoCalls EXCEPT ![c] = "api_ok"]
         ELSE /\ startLog' = [NoCalls EXCEPT ![c] = "api_refused"]
              /\ UNCHANGED <<recorders, cameras>>
    /\ stopLog' = {}
    /\ UNCHANGED <<cameras_recording, running, storageVars, poolVars>>
    /\ UNCHANGED sysVars

\* POST /{camera_id}/recording/stop (routes/stream.py stop_recording)
ApiStopRecording ==
    /\ \E c \in 1..NumCameras :
         /\ recorders' = StopRecording(recorders, c)
         /\ cameras' = [cameras EXCEPT ![c].status = "online"]
         /\ stopLog' = Stopped(recorders, c, "api")
    /\ startLog' = NoCalls
    /\ UNCHANGED <<cameras_recording, running, storageVars, poolVars>>
    /\ UNCHANGED sysVars

\* PUT /cameras/{id} (routes/cameras.py update_camera) setting is_enabled
UpdateCamera ==
    /\ \E c \in 1..NumCameras, e \in BOOLEAN :
         cameras' = [cameras EXCEPT ![c].is_enabled = e]
    /\ startLog' = NoCalls
    /\ stopLog' = {}
    /\ UNCHANGED <<recorders, cameras_recording, running, storageVars, poolVars>>
    /\ UNCHANGED sysVars

\* PATCH /cameras/{id}/status (routes/cameras.py update_camera_status)
UpdateCameraStatus ==
    /\ \E c \in 1..NumCameras, status \in CameraStatus :
         cameras' = [cameras EXCEPT ![c].status = status]
    /\ startLog' = NoCalls
    /\ stopLog' = {}
    /\ UNCHANGED <<recorders, cameras_recording, running, storageVars, poolVars>>
    /\ UNCHANGED sysVars

\* The recorders after recorder r has become r2; garbage is dropped
Replace(recs, r, r2) ==
    (recs \ {r}) \cup (IF r2.registered \/ Live(r2) THEN {r2} ELSE {})

\* _recording_loop(): the loop test and _start_new_segment().  Popen
\* starts the process ("ok"), raises FileNotFoundError ("not_found": the
\* recorder clears is_recording and the loop ends) or raises another error
\* ("error": caught by the loop, which sleeps and tries again).
RecordingLoopStep ==
    /\ \E r \in recorders, popen \in {"ok", "not_found", "error"} :
         /\ r.task = "start" \/ (r.task = "wait" /\ r.proc = "exited")
         /\ recorders' =
              IF ~r.is_recording
              THEN Replace(recorders, r, [r EXCEPT !.task = "done"])
              ELSE IF popen = "ok"
              THEN Replace(recorders, r,
                           [r EXCEPT !.proc = "running", !.task = "wait"])
              ELSE IF popen = "not_found"
              THEN Replace(recorders, r,
                           [r EXCEPT !.is_recording = FALSE,
                                     !.spawn_failed = TRUE, !.task = "done"])
              ELSE recorders
    /\ startLog' = NoCalls
    /\ stopLog' = {}
    /\ UNCHANGED <<cameras, cameras_recording, running, storageVars, poolVars>>
    /\ UNCHANGED sysVars

\* The capture process exits: the segment duration is over, or the stream
\* could not be read
ProcessExit ==
    /\ \E r \in recorders :
         /\ r.proc = "running"
         /\ recorders' = Replace(recorders, r, [r EXCEPT !.proc = "exited"])
    /\ startLog' = NoCalls
    /\ stopLog' = {}
    /\ UNCHANGED <<cameras, cameras_recording, running, storageVars, poolVars>>
    /\ UNCHANGED sysVars

\* What remains of the recorders when the entry of camera c is deleted
\* from _recorders: a recorder that is still live stays around
Unregister(recs, c) ==
    (recs \ Registered(recs, c))
        \cup {[r EXCEPT !.registered = FALSE] :
                 r \in {q \in Registered(recs, c) : Live(q)}}

\* What the caller of stop_recording(c) does after it returned: the stop
\* route sets status online; _stop_auto_recording discards the camera
\* from the set and sets the status
AfterStop(c, by) ==
    IF by = "api"
    THEN /\ cameras' = [cameras EXCEPT ![c].status = "online"]
         /\ UNCHANGED cameras_recording
    ELSE /\ cameras' = [cameras EXCEPT ![c].status = StatusAfterStop(cameras[c])]
         /\ cameras_recording' = cameras_recording \ {c}

\* stop_recording(c) from the stop route or from stop_camera_recording
\* (which returns at once for a camera not in the set), up to the first
\* await inside FFmpegRecorder.stop() of the registered recorder: stop()
\* clears is_recording, sets the stop event and suspends.
StopBegin ==
    /\ \E c \in 1..NumCameras, by \in {"api", "manual"}, r \in recorders :
         /\ by = "manual" => c \in cameras_recording
         /\ r \in Registered(recorders, c)
         /\ r.is_recording
         /\ recorders' = (recorders \ {r})
                \cup {[r EXCEPT !.is_recording = FALSE, !.stopping = by]}
    /\ startLog' = NoCalls
    /\ stopLog' = {}
    /\ UNCHANGED <<cameras, cameras_recording, running, storageVars, poolVars>>
    /\ UNCHANGED sysVars

\* stop_recording(c), from the return of FFmpegRecorder.stop() on: the
\* process and the segment loop of the stopped recorder have ended, then
\* del self._recorders[camera_id] deletes the entry the map holds for the
\* camera now, then the caller goes on.  With no entry del raises
\* KeyError: the route fails, _stop_auto_recording logs it.
StopEnd ==
    /\ \E r \in recorders :
         /\ r.stopping # "no"
         /\ LET c == r.camera_id
                rest == recorders \ {r}
            IN  /\ recorders' = Unregister(rest, c)
                /\ stopLog' = {[by |-> r.stopping,
                                 rec |-> [r EXCEPT !.stopping = "no"]]}
                /\ IF Registered(recorders, c) = {}
                   THEN UNCHANGED <<cameras, cameras_recording>>
                   ELSE AfterStop(c, r.stopping)
    /\ startLog' = NoCalls
    /\ UNCHANGED <<running, storageVars, poolVars>>
    /\ UNCHANGED sysVars

\* stop_recording(c) that does not suspend: no recorder is registered
\* (it returns None), or the registered one is not recording (its stop()
\* returns None at once and the entry is deleted); then the caller goes
\* on.
StopAtOnce ==
    /\ \E c \in 1..NumCameras, by \in {"api", "manual"} :
         /\ by = "manual" => c \in cameras_recording
         /\ ~AlreadyRecording(recorders, c)
         /\ recorders' = Unregister(recorders, c)
         /\ AfterStop(c, by)
    /\ startLog' = NoCalls
    /\ stopLog' = {}
    /\ UNCHANGED <<running, storageVars, poolVars>>
    /\ UNCHANGED sysVars

InitRec ==
    /\ StorageQuiet
    /\ PoolsEmpty
    /\ RecQuiet
    /\ SysQuiet

NextRec ==
    \/ ManagerStart
    \/ ManagerStop
    \/ Poll
    \/ StartCameraRecording
    \/ StopCameraRecording
    \/ ApiStartRecording
    \/ ApiStopRecording
    \/ UpdateCamera
    \/ UpdateCameraStatus
    \/ RecordingLoopStep
    \/ ProcessExit

SpecRec == InitRec /\ [][NextRec]_vars

\* _monitoring_loop() keeps running: while the supervisor is running, a
\* poll that would change something is eventually made
SpecRecLive == InitRec /\ [][NextRec]_vars /\ WF_vars(Poll)
(***************************************************************************)
(* Properties of recording and supervision (SpecRec)                       *)
(***************************************************************************)

ActiveRecorders(c) == {r \in recorders : r.camera_id = c /\ r.is_recording}

\* C2: a start_recording call for a camera whose recorder is running is
\* refused and leaves the camera's recorders as they are; and in every state
\* each camera has at most one active recorder and at most one running
\* capture process.
C2_StartIdempotent ==
    /\ [][\A c \in 1..NumCameras :
            (AlreadyRecording(recorders, c) /\ startLog'[c] # "none")
                => /\ startLog'[c] \in {"poll_refused", "manual_refused",
                                        "api_refused"}
                   /\ {r \in recorders' : r.camera_id = c}
                        = {r \in recorders : r.camera_id = c}]_vars
    /\ [](\A c \in 1..NumCameras :
            /\ Cardinality(ActiveRecorders(c)) <= 1
            /\ Cardinality({r \in recorders :
                   r.camera_id = c /\ r.proc = "running"}) <= 1)

\* A start call has just been refused for a camera whose recorder is
\* registered, recording and has its capture process running.
C2_Witness ==
    \E c \in 1..NumCameras :
        /\ startLog[c] \in {"poll_refused", "manual_refused", "api_refused"}
        /\ \E r \in Registered(recorders, c) :
              r.is_recording /\ r.proc = "running"

\* C3: a camera is in the supervisor's currently-recording set exactly when
\* the recording service holds an active recorder for it.
C3_NoDivergence ==
    \A c \in 1..NumCameras :
        c \in cameras_recording <=> AlreadyRecording(recorders, c)

\* C8: a poll stops the recorder of, and removes from the
\* currently-recording set, every camera in the set that is not desired.
C8_PollStopsUndesired ==
    [][Poll => \A c \in cameras_recording :
                  ~ShouldRecord(cameras[c])
                      => /\ c \notin cameras_recording'
                         /\ Registered(recorders', c) = {}]_vars

\* C9: a recorder whose process could not be spawned did not report a
\* successful start: it is not registered with the recording service and
\* its camera is not in the currently-recording set.
C9_SpawnFailureReported ==
    \A r \in recorders :
        r.spawn_failed
            => ~r.registered /\ r.camera_id \notin cameras_recording

\* C10: a poll calls start_recording for a camera exactly when the camera
\* is enabled, its status is online or recording and it is not in the
\* currently-recording set: never for an offline, connecting or error
\* camera, once for a camera that has come online, and not again while the
\* camera stays in the set.
C10_PollStartsOnlyOnline ==
    [][Poll => \A c \in 1..NumCameras :
                  startLog'[c] # "none"
                      <=> /\ cameras[c].is_enabled
                          /\ cameras[c].status \in {"online", "recording"}
                          /\ c \notin cameras_recording]_vars

\* The last poll started recording for a camera, which is now in the
\* currently-recording set with status recording.
C10_Witness ==
    \E c \in 1..NumCameras :
        /\ startLog[c] = "poll_ok"
        /\ c \in cameras_recording
        /\ cameras[c].status = "recording"

FewRecorders == Cardinality(recorders) < MaxRecorders

RaceApiStart == FewRecorders /\ ApiStartRecording

RaceManualStart == FewRecorders /\ StartCameraRecording

NextStopRace ==
    \/ RaceApiStart
    \/ RaceManualStart
    \/ StopBegin
    \/ StopEnd
    \/ StopAtOnce
    \/ RecordingLoopStep
    \/ ProcessExit

SpecStopRace == InitRec /\ [][NextStopRace]_vars

\* C36: a start_recording that runs while stop_recording for the same
\* camera is suspended leaves no unregistered recorder: every recorder
\* that is recording with its segment loop running is the entry of the
\* recorder map for its camera.
C36_RunningRecorderRegistered ==
    \A r \in recorders : (r.is_recording /\ r.task # "done") => r.registered

C39_ManualStopUntilNextPoll ==
    /\ [][\A c \in 1..NumCameras :
            (/\ StopCameraRecording
             /\ c \in cameras_recording
             /\ c \notin cameras_recording'
             /\ cameras[c].is_enabled
             /\ cameras[c].status = "recording")
               => /\ cameras'[c].status = "online"
                  /\ Registered(recorders', c) = {}]_vars
    /\ [][\A c \in 1..NumCameras :
            (/\ Poll
             /\ c \notin cameras_recording
             /\ cameras[c].is_enabled
             /\ cameras[c].status = "online"
             /\ ~AlreadyRecording(recorders, c))
               => /\ c \in cameras_recording'
                  /\ cameras'[c].status = "recording"
                  /\ startLog'[c] = "poll_ok"
                  /\ \E r \in Registered(recorders', c) :
                        r.is_recording /\ r.task = "start"]_vars

\* C39 witness: the supervisor runs and stop_camera_recording has just
\* stopped the recorder of an enabled camera, which is now online and out
\* of the set
C39_Witness ==
    \E c \in 1..NumCameras :
        /\ running
        /\ \E e \in stopLog : e.by = "manual" /\ e.rec.camera_id = c
        /\ c \notin cameras_recording
        /\ cameras[c].is_enabled
        /\ cameras[c].status = "online"
        /\ Registered(recorders, c) = {}

(***************************************************************************)
(* The application process (main.py): lifespan startup, the requests       *)
(* served between startup and shutdown, lifespan shutdown.  No code of     *)
(* the application calls AutoRecordingManager.start() or                   *)
(* StoragePoolService.start(), so neither is an action here.               *)
(***************************************************************************)

\* lifespan(), before the yield: init_db(), create_initial_data(), then
\* storage_manager.start(), which sets _is_running and creates the task of
\* _cleanup_loop(); an exception of the first two is re-raised and the
\* application does not start.  app.cleanup_task is the position of that
\* task: "none", "created", "pass" (inside cleanup()), "sleeping" (in
\* asyncio.sleep) or "cancelled".
LifespanStartup ==
    /\ app.phase = "down"
    /\ \E db_ok \in BOOLEAN :
         app' = IF db_ok
                THEN [app EXCEPT !.phase = "serving", !.storage_is_running = TRUE,
                                 !.cleanup_task = "created"]
                ELSE [app EXCEPT !.phase = "failed"]
    /\ UNCHANGED <<storageVars, poolVars, recVars, writing, db_locked, seg, assigning>>

RunsAtAnyPoint(task) == TRUE

\* When another coroutine of the event loop (the shutdown half of
\* lifespan(), a request handler) can run.  The task created by start() is
\* ahead of it in the ready queue, so the first iteration has begun; and
\* cleanup() has no await, so from the call of cleanup() to its return
\* the event loop runs nothing else.
OthersMayRun(task) == task \notin {"created", "pass"}

\* lifespan(), after the yield: storage_manager.stop(), close_db().
\* stop() clears _is_running, cancels the task and awaits it: the
\* CancelledError is raised in the task where it is suspended.
LifespanShutdown ==
    /\ app.phase = "serving"
    /\ OthersMayRun(app.cleanup_task)
    /\ app' = [app EXCEPT !.phase = "exited", !.storage_is_running = FALSE,
                          !.cleanup_task = "cancelled"]
    /\ UNCHANGED <<storageVars, poolVars, recVars, writing, db_locked, seg, assigning>>

\* _cleanup_loop(): the task runs for the first time or asyncio.sleep()
\* returns; while self._is_running: the call of cleanup() begins
CleanupLoopIterate ==
    /\ app.cleanup_task \in {"created", "sleeping"}
    /\ app.storage_is_running
    /\ cl.pc = "idle"
    /\ app' = [app EXCEPT !.cleanup_task = "pass"]
    /\ ret' = NoResult
    /\ UNCHANGED <<disk, cl, poolVars, recVars, writing, db_locked, seg, assigning>>

\* The pass of the loop task has been called and has not returned
InPass == app.cleanup_task = "pass" /\ ret = NoResult

\* _cleanup_loop(): await self.cleanup(), step by step
PassRetention == InPass /\ CleanupRetention

PassCapacityStep == InPass /\ CleanupCapacityStep

PassCapacityExit == InPass /\ CleanupCapacityExit

PassReturn == InPass /\ CleanupReturn

\* _cleanup_loop(): cleanup() has returned; _last_cleanup is set and the
\* task suspends in asyncio.sleep(interval_hours * 3600)
CleanupLoopSleep ==
    /\ app.cleanup_task = "pass"
    /\ ret.op = "cleanup"
    /\ app' = [app EXCEPT !.cleanup_task = "sleeping"]
    /\ UNCHANGED <<storageVars, poolVars, recVars, writing, db_locked, seg, assigning>>

\* Requests are served, and tasks of the event loop run, between startup
\* and shutdown
Serving == app.phase = "serving" /\ OthersMayRun(app.cleanup_task)

ServeStartRecording == Serving /\ ApiStartRecording

ServeStopRecording == Serving /\ ApiStopRecording

ServeUpdateCamera == Serving /\ UpdateCamera

ServeUpdateCameraStatus == Serving /\ UpdateCameraStatus

ServeRecordingLoopStep == Serving /\ RecordingLoopStep

\* The application starts over a recordings root that holds files
InitApp ==
    /\ \E S \in SUBSET (1..MaxFiles) :
         \E a \in [S -> ScannedAttr] : disk = ScanOrder(S, a)
    /\ cl = IdleCleanup
    /\ ret = NoResult
    /\ PoolsEmpty
    /\ RecQuiet
    /\ SysQuiet

NextApp ==
    \/ LifespanStartup
    \/ LifespanShutdown
    \/ CleanupLoopIterate
    \/ PassRetention
    \/ PassCapacityStep
    \/ PassCapacityExit
    \/ PassReturn
    \/ CleanupLoopSleep
    \/ ServeStartRecording
    \/ ServeStopRecording
    \/ ServeUpdateCamera
    \/ ServeUpdateCameraStatus
    \/ ServeRecordingLoopStep
    \/ ProcessExit

SpecApp == InitApp /\ [][NextApp]_vars

\* C12: once the lifespan has exited, the cleanup loop, the stats-refresh
\* loop and the poll loop are not running and no recorder is left
\* recording, with its segment loop alive or with a capture process running.
C12_ShutdownStopsAll ==
    app.phase = "exited"
        => /\ ~app.storage_is_running
           /\ ~app.pool_is_running
           /\ ~running
           /\ \A r \in recorders :
                 ~r.is_recording /\ r.proc # "running" /\ r.task = "done"

(***************************************************************************)
(* The recordings root as the running system uses it: cleanup() passes     *)
(* (periodic or POST /recordings/cleanup), capture processes creating and  *)
(* writing segment files under it, and the lock and unlock routes setting  *)
(* Recording.is_locked in the database.                                    *)
(***************************************************************************)

Paths(d) == {d[i].path : i \in 1..Len(d)}

\* The file a capture process has created at path p, s bytes written so
\* far; its st_ctime is the current time
LiveFile(p, s) ==
    [path |-> p, size_bytes |-> s, created_at |-> MaxTime,
     camera_id |-> CameraOfPath(p), is_locked |-> FALSE]

\* The scan order (ascending path) with file f added
WithFile(d, f) ==
    SelectSeq(d, LAMBDA g : g.path < f.path) \o <<f>>
        \o SelectSeq(d, LAMBDA g : g.path > f.path)

\* _start_new_segment(): Popen of the capture process of a camera, which
\* creates the segment file camera_<id>_<timestamp>.mkv and writes into it
SegmentStart ==
    /\ \E q \in (1..MaxFiles) \ Paths(disk), s \in 1..MaxSize :
         /\ CameraOfPath(q) # NoCamera
         /\ \A w \in writing : CameraOfPath(w) # CameraOfPath(q)
         /\ disk' = WithFile(disk, LiveFile(q, s))
         /\ writing' = writing \cup {q}
    /\ UNCHANGED <<cl, ret, poolVars, recVars, app, db_locked, seg, assigning>>

\* The capture process of a segment exits and closes its file
SegmentEnd ==
    /\ \E w \in writing : writing' = writing \ {w}
    /\ UNCHANGED <<storageVars, poolVars, recVars, app, db_locked, seg, assigning>>

\* POST /recordings/{id}/lock for the recording row of a file
LockRecording ==
    /\ \E q \in Paths(disk) \ db_locked : db_locked' = db_locked \cup {q}
    /\ UNCHANGED <<storageVars, poolVars, recVars, app, writing, seg, assigning>>

\* POST /recordings/{id}/unlock
UnlockRecording ==
    /\ \E q \in db_locked : db_locked' = db_locked \ {q}
    /\ UNCHANGED <<storageVars, poolVars, recVars, app, writing, seg, assigning>>

InitFiles ==
    /\ \E S \in SUBSET (1..MaxFiles) :
         \E a \in [S -> ScannedAttr] : disk = ScanOrder(S, a)
    /\ cl = IdleCleanup
    /\ ret = NoResult
    /\ PoolsEmpty
    /\ RecQuiet
    /\ SysQuiet

NextFiles ==
    \/ CleanupRetention
    \/ CleanupCapacityStep
    \/ CleanupCapacityExit
    \/ CleanupReturn
    \/ SegmentStart
    \/ SegmentEnd
    \/ LockRecording
    \/ UnlockRecording

SpecFiles == InitFiles /\ [][NextFiles]_vars

\* C13: the segment file a capture process is writing is never deleted by
\* a cleanup pass: every path being written is a file under the root.
C13_LiveSegmentKept == writing \subseteq Paths(disk)

\* C14: the file of a recording locked through lock_recording is not
\* deleted by cleanup() while the recording stays locked.
C14_DbLockedKept == db_locked \subseteq Paths(disk)

(***************************************************************************)
(* The cleanup loop of the Storage Manager from startup to shutdown, over  *)
(* a recordings root that holds files.                                     *)
(***************************************************************************)

NextLoop ==
    \/ LifespanStartup
    \/ LifespanShutdown
    \/ CleanupLoopIterate
    \/ PassRetention
    \/ PassCapacityStep
    \/ PassCapacityExit
    \/ PassReturn
    \/ CleanupLoopSleep
    \/ SegmentStart
    \/ SegmentEnd

SpecLoop == InitFiles /\ [][NextLoop]_vars

\* C33: stopping the Storage Manager never interrupts a cleanup pass
\* part-way.  The loop task is cancelled only while it is suspended in the
\* sleep between two passes, and once it has ended no pass is left
\* unfinished: the pass it called last has returned its result.
C33_StopNeverInterruptsPass ==
    /\ [][(app.cleanup_task # "cancelled" /\ app'.cleanup_task = "cancelled")
             => (app.cleanup_task = "sleeping" /\ cl.pc = "idle")]_vars
    /\ [](app.cleanup_task = "cancelled"
             => (cl.pc = "idle" /\ ret.op = "cleanup"))

\* C33 witness: the loop task has been cancelled after a pass that deleted
\* a file
C33_Witness ==
    /\ app.cleanup_task = "cancelled"
    /\ app.phase = "exited"
    /\ ret.op = "cleanup"
    /\ ret.deleted_count > 0

(***************************************************************************)
(* Pool size limits beside the Storage Manager: pools are created with a   *)
(* max_size_gb, some on the recordings root, and cleanup passes run over   *)
(* the files under that root.                                              *)
(***************************************************************************)

\* count_recordings_in_pool(pool_path): the recording files below the
\* pool's path.  The files the Storage Manager lists are those below the
\* recordings root.
PoolFiles(pool, d) == IF pool.path = RecordingsDir THEN d ELSE <<>>

\* RecordingFile.from_path() of a file written within the retention period
FreshAttr == [size_bytes : 1..MaxSize, created_at : {MaxTime}, is_locked : {FALSE}]

\* The recordings root holds up to MaxFiles fresh files; no pool yet
InitQuota ==
    /\ \E S \in SUBSET (1..MaxFiles) :
         \E a \in [S -> FreshAttr] : disk = ScanOrder(S, a)
    /\ cl = IdleCleanup
    /\ ret = NoResult
    /\ PoolsEmpty
    /\ RecQuiet
    /\ SysQuiet

NextQuota ==
    \/ CreateSizedPool
    \/ CleanupRetention
    \/ CleanupCapacityStep
    \/ CleanupCapacityExit
    \/ CleanupReturn

SpecQuota == InitQuota /\ [][NextQuota]_vars

\* C27: once a cleanup pass has run, the files below the path of each pool
\* with max_size_gb > 0 sum to at most that pool's max_size.
C27_PoolWithinMaxSize ==
    cl.pc = "done" =>
        \A pool \in pools :
            pool.max_size_gb > 0 =>
                SumSizes(PoolFiles(pool, disk)) <= pool.max_size_gb * GiB

(***************************************************************************)
(* Segmented Recorder, step by step: one FFmpegRecorder with its segment   *)
(* loop task, its capture process and one stop() call, on a clock of       *)
(* seconds.  A coroutine runs from one suspension point to the next in one *)
(* step; the suspension points of the loop are asyncio.wait (loop =        *)
(* "waiting") and asyncio.sleep(5) (loop = "retry"), those of stop() are   *)
(* asyncio.sleep(1) (stop = "grace") and wait_for (stop = "join").         *)
(*                                                                         *)
(* Fields of seg: is_recording, stop_event, proc (self._process: none,     *)
(* running, exited), cur (self._current_recording: none, open = without    *)
(* end_time, final = with end_time and duration_seconds), result (what     *)
(* stop() returned).  Timers: age of the process, retry_left, grace_left,  *)
(* join_left, poll_due (the sleep(1) of _wait_for_segment has elapsed),    *)
(* since_exit (seconds since the process exited), clock.  History:         *)
(* quit_sent, failed (the process exited before its duration without a     *)
(* quit request), clean (no failure of any kind so far), spawns,           *)
(* finalized (segments whose end_time was written), forced, inflight (the  *)
(* process was running when stop() was called), files (the output path of  *)
(* every process spawned so far, in order).                                *)
(***************************************************************************)

Dec(n) == IF n > 0 THEN n - 1 ELSE 0

\* _finalize_segment(): self._process.wait(timeout=10) raises
\* TimeoutExpired when the process is still running and does not exit
FinalizeRaises(s, exits) == s.proc = "running" /\ ~exits

SkipFinalize(s) == s

\* _finalize_segment() when it does not raise: the process has exited;
\* end_time and duration_seconds are written into the current metadata
FinalizeSegment(s) ==
    [s EXCEPT !.proc = IF @ = "running" THEN "exited" ELSE @,
              !.since_exit = IF s.proc = "running" THEN 0 ELSE @,
              !.cur = IF @ = "open" THEN "final" ELSE @,
              !.finalized = IF s.cur = "open" THEN @ + 1 ELSE @]

\* _recording_loop(): except Exception: log, asyncio.sleep(5)
Caught(s) == [s EXCEPT !.loop = "retry", !.retry_left = RetryDelay]

\* _start_new_segment(): datetime.utcnow().strftime("%Y%m%d_%H%M%S") in
\* camera_{id}_{timestamp}.mkv.  The format drops everything below the
\* second, so the path of a segment is the second in which it is named.
SegmentPath(s) == s.clock

\* _start_new_segment(): finalize the previous segment, Popen, new
\* metadata.  popen is the outcome of subprocess.Popen: "ok",
\* "not_found" (FileNotFoundError) or "error" (another exception, which
\* the loop catches).  A raising wait(timeout=10) has blocked for 10 s, so
\* the grace sleep of a stop() in progress has elapsed.
StartNewSegment(s, popen, exits) ==
    IF FinalizeRaises(s, exits)
    THEN Caught([s EXCEPT !.grace_left = 0, !.clean = FALSE])
    ELSE LET f == FinalizeSegment(s) IN
         IF popen = "ok"
         THEN [f EXCEPT !.proc = "running", !.age = 0, !.spawns = @ + 1,
                        !.files = Append(@, SegmentPath(s)),
                        !.cur = "open", !.failed = FALSE, !.quit_sent = FALSE,
                        !.loop = "waiting", !.poll_due = TRUE]
         ELSE IF popen = "not_found"
         THEN [f EXCEPT !.is_recording = FALSE, !.clean = FALSE,
                        !.loop = "waiting", !.poll_due = TRUE]
         ELSE Caught([f EXCEPT !.clean = FALSE])

\* _recording_loop(): the while condition, then one _start_new_segment()
LoopTop(s, popen, exits) ==
    IF s.is_recording /\ ~s.stop_event
    THEN StartNewSegment(s, popen, exits)
    ELSE [s EXCEPT !.loop = "ended"]

PopenOutcome == {"ok", "not_found", "error"}

\* A step of the loop that reaches Popen is followed while the recorder
\* has spawned fewer than MaxSpawns processes
MaySpawn(s) == (s.is_recording /\ ~s.stop_event) => s.spawns < MaxSpawns

\* FFmpegRecorder.start(): mkdir, flags, create_task(_recording_loop())
RecorderStart ==
    /\ seg.loop = "none"
    /\ seg.stop = "idle"
    /\ ~seg.is_recording
    /\ seg' = [seg EXCEPT !.is_recording = TRUE, !.stop_event = FALSE,
                          !.loop = "created"]
    /\ UNCHANGED <<storageVars, poolVars, recVars, app, writing, db_locked,
                   assigning>>

\* The loop task runs for the first time
LoopBegin ==
    /\ seg.loop = "created"
    /\ MaySpawn(seg)
    /\ \E popen \in PopenOutcome, exits \in BOOLEAN :
         seg' = LoopTop(seg, popen, exits)
    /\ UNCHANGED <<storageVars, poolVars, recVars, app, writing, db_locked,
                   assigning>>

\* _wait_for_segment(): poll() is None, so sleep another second
LoopPollRunning ==
    /\ seg.loop = "waiting"
    /\ ~seg.stop_event
    /\ seg.poll_due
    /\ seg.proc = "running"
    /\ seg' = [seg EXCEPT !.poll_due = FALSE]
    /\ UNCHANGED <<storageVars, poolVars, recVars, app, writing, db_locked,
                   assigning>>

\* _wait_for_segment() finds the process exited (or there is none):
\* asyncio.wait returns, the stop event is not set, next iteration
LoopSegmentDone ==
    /\ seg.loop = "waiting"
    /\ ~seg.stop_event
    /\ seg.poll_due
    /\ seg.proc # "running"
    /\ MaySpawn(seg)
    /\ \E popen \in PopenOutcome, exits \in BOOLEAN :
         seg' = LoopTop(seg, popen, exits)
    /\ UNCHANGED <<storageVars, poolVars, recVars, app, writing, db_locked,
                   assigning>>

\* asyncio.wait returns because the stop event is set: _finalize_segment()
\* and break, or the exception of its wait(timeout=10) is caught
LoopStopSeen ==
    /\ seg.loop = "waiting"
    /\ seg.stop_event
    /\ \E exits \in BOOLEAN :
         seg' = IF FinalizeRaises(seg, exits)
                THEN Caught([seg EXCEPT !.grace_left = 0, !.clean = FALSE])
                ELSE [FinalizeSegment(seg) EXCEPT !.loop = "ended"]
    /\ UNCHANGED <<storageVars, poolVars, recVars, app, writing, db_locked,
                   assigning>>

\* asyncio.sleep(5) of the except branch is over: back to the while
LoopRetryDone ==
    /\ seg.loop = "retry"
    /\ seg.retry_left = 0
    /\ MaySpawn(seg)
    /\ \E popen \in PopenOutcome, exits \in BOOLEAN :
         seg' = LoopTop(seg, popen, exits)
    /\ UNCHANGED <<storageVars, poolVars, recVars, app, writing, db_locked,
                   assigning>>

\* The capture process ends by itself after -t segment_duration
ProcessNaturalExit ==
    /\ seg.proc = "running"
    /\ seg.age = SegmentDuration
    /\ seg' = [seg EXCEPT !.proc = "exited", !.since_exit = 0]
    /\ UNCHANGED <<storageVars, poolVars, recVars, app, writing, db_locked,
                   assigning>>

\* The capture process ends before its duration: the stream can not be
\* read, the process crashes, or it obeys a quit request
ProcessFail ==
    /\ seg.proc = "running"
    /\ seg.age < SegmentDuration
    /\ seg' = [seg EXCEPT !.proc = "exited", !.since_exit = 0,
                          !.failed = ~seg.quit_sent,
                          !.clean = @ /\ seg.quit_sent]
    /\ UNCHANGED <<storageVars, poolVars, recVars, app, writing, db_locked,
                   assigning>>

\* FFmpegRecorder.stop() up to its first suspension: None at once when not
\* recording; else clear the flag, set the stop event, write 'q' to a
\* running process and sleep(1), or go straight to wait_for
StopCall ==
    /\ seg.stop = "idle"
    /\ seg.loop # "none"
    /\ seg' = IF ~seg.is_recording
              THEN [seg EXCEPT !.stop = "returned", !.result = "None"]
              ELSE IF seg.proc = "running"
              THEN [seg EXCEPT !.is_recording = FALSE, !.stop_event = TRUE,
                               !.inflight = TRUE, !.quit_sent = TRUE,
                               !.stop = "grace", !.grace_left = GracePeriod]
              ELSE [seg EXCEPT !.is_recording = FALSE, !.stop_event = TRUE,
                               !.stop = "join", !.join_left = JoinTimeout]
    /\ UNCHANGED <<storageVars, poolVars, recVars, app, writing, db_locked,
                   assigning>>

LeftRunning(proc) == proc

\* stop(): terminate(), wait(timeout=5) and kill() on TimeoutExpired
ForcedDown(proc) == "exited"

\* stop() after the grace sleep: a process still running is terminated,
\* and killed when it has not exited 5 s later; then wait_for the task
StopAfterGrace ==
    /\ seg.stop = "grace"
    /\ seg.grace_left = 0
    /\ \E obeys_term \in BOOLEAN :
         seg' = IF seg.proc = "running"
                THEN [seg EXCEPT !.proc = ForcedDown(@), !.since_exit = 0,
                                 !.forced = IF obeys_term THEN "terminated"
                                            ELSE "killed",
                                 !.stop = "join", !.join_left = JoinTimeout]
                ELSE [seg EXCEPT !.stop = "join", !.join_left = JoinTimeout]
    /\ UNCHANGED <<storageVars, poolVars, recVars, app, writing, db_locked,
                   assigning>>

\* stop(): wait_for returns because the task has ended, or it times out
\* and the task is cancelled (the sleep of a retry that is due at the same
\* instant was scheduled first and runs first); the metadata is returned
StopJoin ==
    /\ seg.stop = "join"
    /\ \/ seg.loop \in {"ended", "cancelled"}
       \/ seg.join_left = 0 /\ ~(seg.loop = "retry" /\ seg.retry_left = 0)
    /\ seg' = [seg EXCEPT
          !.loop = IF @ \in {"ended", "cancelled"} THEN @ ELSE "cancelled",
          !.result = IF seg.cur = "none" THEN "None" ELSE seg.cur,
          !.cur = "none",
          !.stop = "returned"]
    /\ UNCHANGED <<storageVars, poolVars, recVars, app, writing, db_locked,
                   assigning>>

\* Something is ready to run now: the event loop runs it, and a process
\* whose duration is over exits, before the clock moves on
Urgent(s) ==
    \/ s.proc = "running" /\ s.age = SegmentDuration
    \/ s.loop = "created" /\ MaySpawn(s)
    \/ s.loop = "waiting" /\ s.stop_event
    \/ s.loop = "waiting" /\ s.poll_due /\ (s.proc = "running" \/ MaySpawn(s))
    \/ s.loop = "retry" /\ s.retry_left = 0 /\ MaySpawn(s)
    \/ s.stop = "grace" /\ s.grace_left = 0
    \/ s.stop = "join" /\ (s.loop \in {"ended", "cancelled"} \/ s.join_left = 0)

\* One second passes
Tick ==
    /\ seg.loop # "none"
    /\ seg.clock < MaxClock
    /\ ~Urgent(seg)
    /\ seg' = [seg EXCEPT
          !.clock = @ + 1,
          !.age = IF seg.proc = "running" THEN @ + 1 ELSE @,
          !.since_exit = IF seg.proc = "exited" /\ @ < RetryDelay THEN @ + 1 ELSE @,
          !.retry_left = Dec(@),
          !.grace_left = Dec(@),
          !.join_left = Dec(@),
          !.poll_due = IF seg.loop = "waiting" THEN TRUE ELSE @]
    /\ UNCHANGED <<storageVars, poolVars, recVars, app, writing, db_locked,
                   assigning>>

InitSeg ==
    /\ StorageQuiet
    /\ PoolsEmpty
    /\ RecQuiet
    /\ SysQuiet

NextSeg ==
    \/ RecorderStart
    \/ LoopBegin
    \/ LoopPollRunning
    \/ LoopSegmentDone
    \/ LoopStopSeen
    \/ LoopRetryDone
    \/ ProcessNaturalExit
    \/ ProcessFail
    \/ StopCall
    \/ StopAfterGrace
    \/ StopJoin
    \/ Tick

SpecSeg == InitSeg /\ [][NextSeg]_vars

(***************************************************************************)
(* Queries of the Storage Pool Registry.  A query whose SQL leaves the     *)
(* order of equal keys open is modelled by the set of results it can give. *)
(***************************************************************************)

\* get_all_pools(): the rows ordered by priority, rows of equal priority
\* in any order
AllPoolsOrders(ps) ==
    {s \in [1..Cardinality(ps) -> ps] :
        /\ \A i, j \in 1..Cardinality(ps) : i # j => s[i] # s[j]
        /\ \A i, j \in 1..Cardinality(ps) : i < j => s[i].priority <= s[j].priority}

AvailableIgnoringEnabled(pool) ==
    pool.status = "active" /\ ~BelowMinFree(pool.free_size_bytes, pool.min_free_gb)

\* StoragePool.is_available
IsAvailable(pool) ==
    /\ pool.is_enabled
    /\ pool.status = "active"
    /\ ~BelowMinFree(pool.free_size_bytes, pool.min_free_gb)

NoPool == [id |-> 0]   \* a query that returns None

Raises == [id |-> -1]  \* a query that raises MultipleResultsFound

\* get_best_available_pool(): for pool in pools: if pool.is_available:
\* return pool; None after the loop
RECURSIVE FirstAvailableFrom(_, _)
FirstAvailableFrom(s, i) ==
    IF i > Len(s) THEN NoPool
    ELSE IF IsAvailable(s[i]) THEN s[i]
    ELSE FirstAvailableFrom(s, i + 1)

\* get_best_available_pool(): the results it can return
BestAvailablePool(ps) == {FirstAvailableFrom(s, 1) : s \in AllPoolsOrders(ps)}

FirstRowFrom(s, i) == IF i > Len(s) THEN NoPool ELSE s[i]

\* where(is_enabled == True).order_by(priority).limit(1): the first
\* enabled row of the list s from index i on
RECURSIVE FirstEnabledFrom(_, _)
FirstEnabledFrom(s, i) ==
    IF i > Len(s) THEN NoPool
    ELSE IF s[i].is_enabled THEN s[i]
    ELSE FirstEnabledFrom(s, i + 1)

\* get_pool(pool_id): scalar_one_or_none on the primary key
GetPool(ps, pool_id) ==
    IF \E p \in ps : p.id = pool_id
    THEN CHOOSE p \in ps : p.id = pool_id
    ELSE NoPool

\* get_default_pool(): the row with is_default, else the first enabled row
\* by priority (limit 1); "raises" when scalar_one_or_none finds two
\* default rows
DefaultPool(ps) ==
    LET flagged == {p \in ps : p.is_default} IN
    IF Cardinality(flagged) > 1 THEN {Raises}
    ELSE IF flagged # {} THEN flagged
    ELSE {FirstEnabledFrom(s, 1) : s \in AllPoolsOrders(ps)}

\* get_camera_pool(camera_id): the results it can return
CameraPool(ps, rows, camera_id) ==
    LET primary == PrimaryOf(rows, camera_id) IN
    IF Cardinality(primary) > 1 THEN {Raises}
    ELSE IF primary # {}
         THEN {GetPool(ps, a.storage_pool_id) : a \in primary}
         ELSE DefaultPool(ps)

\* get_recording_path(camera_id) once get_camera_pool has returned pool:
\* the directory, as base path, camera and layout below the base.  It has
\* no failing branch of its own and raises only where get_camera_pool does.
PathFor(pool, camera_id) ==
    IF pool = Raises THEN [raises |-> TRUE]
    ELSE [base |-> IF pool = NoPool THEN RecordingsDir ELSE pool.path,
          camera_id |-> camera_id,
          layout |-> "camera_<id>/continuous/<YYYY>/<MM>/<DD>"]

\* get_recording_path(camera_id): the directories it can return
RecordingPath(ps, rows, camera_id) ==
    {PathFor(pool, camera_id) : pool \in CameraPool(ps, rows, camera_id)}

(***************************************************************************)
(* Properties of the registry queries                                      *)
(***************************************************************************)

\* C15: get_recording_path never resolves to an unavailable location: when
\* the pool get_camera_pool gives for the camera is disabled, full, in error
\* or short of free space, or when there is no pool, the call fails
\* instead of returning a directory.
C15_PathOnlyWhenAvailable ==
    \A c \in 1..MaxCamera : \A pool \in CameraPool(pools, assignments, c) :
        (pool = NoPool \/ pool = Raises \/ ~IsAvailable(pool))
            => PathFor(pool, c) = [raises |-> TRUE]

\* C17: get_best_available_pool returns an available pool (enabled, status
\* active, free space not below min_free) of which no available pool has a
\* lower priority value, and returns None exactly when no pool is available.
C17_BestIsLowestAvailable ==
    LET avail == {p \in pools : /\ p.is_enabled
                                /\ p.status = "active"
                                /\ p.free_size_bytes >= p.min_free_gb * GiB}
    IN  \A r \in BestAvailablePool(pools) :
            IF avail = {} THEN r = NoPool
            ELSE r \in avail /\ \A q \in avail : r.priority <= q.priority

\* Two pools of which the one with the lower priority value is disabled and
\* the other is available: the other one is the result.
C17_Witness ==
    \E p, q \in pools :
        /\ p.priority < q.priority
        /\ ~p.is_enabled /\ p.status = "active"
        /\ ~BelowMinFree(p.free_size_bytes, p.min_free_gb)
        /\ BestAvailablePool(pools) = {q}

\* C18: get_camera_pool(camera) returns the pool of the camera's primary
\* assignment when the camera has one, and otherwise what get_default_pool
\* returns.
C18_CameraPoolResolution ==
    \A c \in 1..MaxCamera :
        LET primary == PrimaryOf(assignments, c) IN
        IF primary # {}
        THEN \A r \in CameraPool(pools, assignments, c) :
                /\ r \in pools
                /\ \E a \in primary : a.storage_pool_id = r.id
        ELSE CameraPool(pools, assignments, c) = DefaultPool(pools)

\* C19: a create_pool call with a path that an existing pool already has
\* returns None and changes nothing: no row is added and no default flag
\* is cleared, whatever is_default was requested.
C19_DuplicateCreateFails ==
    [][(pret'.op = "create_pool" /\ \E p \in pools : p.path = pret'.path)
          => /\ pret'.result = None
             /\ pools' = pools
             /\ assignments' = assignments
             /\ nextPoolId' = nextPoolId]_vars

\* The last call was a create_pool with is_default = true for the path of
\* the existing default pool; it returned None and that pool is still the
\* default.
C19_Witness ==
    /\ pret.op = "create_pool"
    /\ pret.result = None
    /\ pret.is_default
    /\ \E p \in pools : p.path = pret.path /\ p.is_default

\* C20: an update_pool_stats call whose disk-usage query fails leaves the
\* pool with status error.
C20_StatFailureDegrades ==
    [][(pret'.op = "update_pool_stats" /\ ~pret'.stats_ok)
          => \A p \in pools' : p.id = pret'.pool_id => p.status = "error"]_vars

\* C16: every segment file a recorder writes for a camera is in the
\* directory the Pool Registry resolves for that camera,
\* <pool.path>/camera_<id>/continuous/<YYYY>/<MM>/<DD>.
C16_SegmentsInResolvedPath ==
    \A r \in recorders :
        r.proc # "none"
            => r.output_dir \in RecordingPath(pools, assignments, r.camera_id)

\* C30: get_default_pool returns the row flagged is_default when there is
\* one; when no row is flagged it returns an enabled row whose priority
\* value is the lowest among the enabled rows; when no row is flagged and
\* none is enabled it returns None.
C30_DefaultPoolFallback ==
    \A r \in DefaultPool(pools) :
       LET flagged == {p \in pools : p.is_default}
           enabled == {p \in pools : p.is_enabled}
       IN  /\ flagged # {} => r \in flagged
           /\ (flagged = {} /\ enabled # {}) =>
                 /\ r \in enabled
                 /\ \A p \in enabled : r.priority <= p.priority
           /\ (flagged = {} /\ enabled = {}) => r = NoPool

\* No row is flagged, the row with the lowest priority value is disabled
\* and the query returns the enabled row behind it.
C30_Witness ==
    /\ \A p \in pools : ~p.is_default
    /\ \E p, q \in pools :
          /\ ~p.is_enabled /\ q.is_enabled /\ p.priority < q.priority
          /\ DefaultPool(pools) = {q}


\* C21 as stated: after every refresh of an enabled pool that reads the
\* disk statistics the pool is available exactly when the free space read
\* is not below min_free, the stored status says active exactly when the
\* stored free space is not below min_free, and no other step breaks that
\* agreement.
C21_AvailabilityFollowsFree ==
    [][\A q \in pools' :
          LET floor == q.min_free_gb * GiB
              agree == (q.status = "active") <=> (q.free_size_bytes >= floor)
          IN  IF pret'.op = "update_pool_stats" /\ pret'.stats_ok
                 /\ q.id = pret'.pool_id
              THEN /\ agree
                   /\ q.is_enabled =>
                         ((/\ q.status = "active"
                           /\ q.free_size_bytes >= floor) <=> pret'.free >= floor)
              ELSE \A p \in pools :
                     (/\ p.id = q.id
                      /\ (p.status = "active")
                            <=> (p.free_size_bytes >= p.min_free_gb * GiB))
                        => agree]_vars

\* C21, amended: a refresh of a pool that reads the disk statistics stores
\* the free space read and, with it, status full when that is below
\* min_free, status active when it is not and the path exists, status
\* error when it is not and the path is missing; an enabled pool is
\* available after the refresh exactly in the second case.  No other step
\* changes the stored free space or the status of a pool.
C21_RefreshSetsAvailability ==
    [][\A q \in pools' :
          LET floor == q.min_free_gb * GiB
              available == /\ q.is_enabled
                           /\ q.status = "active"
                           /\ q.free_size_bytes >= floor
          IN  IF pret'.op = "update_pool_stats" /\ pret'.stats_ok
                 /\ q.id = pret'.pool_id
              THEN /\ q.free_size_bytes = pret'.free
                   /\ pret'.free < floor => q.status = "full"
                   /\ (pret'.free >= floor /\ pret'.path_exists)
                         => q.status = "active"
                   /\ (pret'.free >= floor /\ ~pret'.path_exists)
                         => q.status = "error"
                   /\ q.is_enabled =>
                         (available <=>
                            (pret'.free >= floor /\ pret'.path_exists))
              ELSE \A p \in pools :
                     p.id = q.id =>
                        /\ q.status = p.status
                        /\ q.free_size_bytes = p.free_size_bytes]_vars

\* A refresh has just found an enabled pool with enough free space and made
\* it available, while another enabled pool is unavailable with status
\* full after a refresh of its own.
C21_Witness ==
    /\ pret.op = "update_pool_stats"
    /\ pret.stats_ok
    /\ pret.path_exists
    /\ \E p, q \in pools :
          /\ p.id = pret.pool_id /\ p.is_enabled /\ IsAvailable(p)
          /\ p.free_size_bytes = pret.free
          /\ q.id # p.id /\ q.is_enabled /\ q.status = "full"
          /\ ~IsAvailable(q)

C22_StopReturnsFinalized ==
    (seg.stop = "returned" /\ seg.inflight) => seg.result = "final"

\* C23: once a stop() call that found the recorder recording has returned,
\* the capture process is not running and no process is spawned any more;
\* stop() writes the quit request first, and a process still running after
\* the grace sleep is terminated or killed before stop() goes on.
C23_StopEndsProcess ==
    /\ [](seg.stop = "returned" => seg.proc # "running")
    /\ [](seg.forced # "no" => seg.quit_sent /\ seg.stop \in {"join", "returned"})
    /\ [][/\ seg.stop = "returned" =>
                seg'.spawns = seg.spawns /\ seg'.proc # "running"
          /\ (seg.stop = "idle" /\ seg.proc = "running" /\ seg'.stop # "idle")
                => seg'.quit_sent /\ seg'.stop = "grace" /\ seg'.forced = "no"
          /\ (seg.stop = "grace" /\ seg'.stop = "join" /\ seg.proc = "running")
                => seg'.proc = "exited" /\ seg'.forced # "no"]_vars

\* stop() has returned after killing a process that ignored the quit
\* request and the terminate signal.
C23_Witness ==
    /\ seg.stop = "returned"
    /\ seg.inflight
    /\ seg.forced = "killed"
    /\ seg.proc = "exited"
    /\ seg.spawns > 0

\* C24: when the capture process exits before its duration the recorder
\* keeps recording, and the next process is spawned no sooner than the
\* retry delay after that exit.
C24_RetryDelayAfterFailure ==
    [][/\ (seg.proc = "running" /\ seg'.proc = "exited" /\ seg'.failed)
             => seg'.is_recording = seg.is_recording
       /\ (seg'.spawns = seg.spawns + 1 /\ seg.failed)
             => seg.since_exit >= RetryDelay]_vars

C38_SegmentPathsDistinct ==
    \A i, j \in 1..Len(seg.files) :
        i # j => seg.files[i] # seg.files[j]

====
